---- MODULE Spec2Model ----
(***************************************************************************)
(* Model of plot.py: main reads a JSON document from stdin, generate_dot   *)
(* turns its node list and edge list into the lines of a Graphviz          *)
(* document, main prints the joined text.                                  *)
(*                                                                         *)
(* Strings are sequences of tokens.  The characters of identifiers ("a",   *)
(* "b", "/") are one token each; every literal piece of an f-string of the *)
(* source is one token.  Identifiers never contain a quote or a blank, so  *)
(* two token sequences are equal exactly when the Python strings are.      *)
(***************************************************************************)
EXTENDS Integers, Sequences, FiniteSets, TLC

VARIABLES stdin, pc, dot, dot_content, stdout, stderr

vars == <<stdin, pc, dot, dot_content, stdout, stderr>>

---------------------------------------------------------------------------
(* Bounds of the checked inputs *)

MaxSegs == 3
MaxNodes == 2
MaxDeepSegs == 6
MaxDeepNodes == 5
MaxEdgeList == 3

---------------------------------------------------------------------------
(* Generic string helpers: str.split, str.join, str.startswith, sorted     *)

Range(s) == {s[i] : i \in DOMAIN s}

Last(s) == s[Len(s)]

ButLast(s) == SubSeq(s, 1, Len(s) - 1)

RECURSIVE split(_)
split(s) ==
    IF s = <<>> THEN << <<>> >>
    ELSE LET rest == split(Tail(s))
         IN  IF Head(s) = "/" THEN << <<>> >> \o rest
             ELSE << <<Head(s)>> \o Head(rest) >> \o Tail(rest)

\* sep.join(parts), joining the two halves of the list
RECURSIVE join(_, _)
join(sep, parts) ==
    IF parts = <<>> THEN <<>>
    ELSE IF Len(parts) = 1 THEN parts[1]
    ELSE LET half == Len(parts) \div 2
         IN  join(sep, SubSeq(parts, 1, half)) \o sep
                 \o join(sep, SubSeq(parts, half + 1, Len(parts)))

startswith(s, prefix) ==
    /\ Len(prefix) <= Len(s)
    /\ SubSeq(s, 1, Len(prefix)) = prefix

\* code points of the identifier characters: "/" = 47, "a" = 97, "b" = 98
ord(c) == IF c = "/" THEN 47 ELSE IF c = "a" THEN 97 ELSE 98

RECURSIVE str_lt(_, _)
str_lt(s, t) ==
    IF t = <<>> THEN FALSE
    ELSE IF s = <<>> THEN TRUE
    ELSE IF Head(s) = Head(t) THEN str_lt(Tail(s), Tail(t))
    ELSE ord(Head(s)) < ord(Head(t))

RECURSIVE sorted(_)
sorted(S) ==
    IF S = {} THEN <<>>
    ELSE LET least == CHOOSE x \in S : \A y \in S \ {x} : str_lt(x, y)
         IN  <<least>> \o sorted(S \ {least})

Indent(n) == [i \in 1..n |-> "    "]

---------------------------------------------------------------------------
(* plot.py *)

pastels_hex_color_theme == <<"#FFDAB9", "#FAFAD2", "#D3FFCE", "#E6E6FA">>

\* the owning cluster path of build_clusters, line 25
cluster_path_of(node) ==
    LET parts == split(node)
    IN  IF Len(parts) > 1 THEN join(<<"/">>, ButLast(parts)) ELSE <<>>

\* clusters[cluster_path].append(node) on an insertion-ordered dict, kept
\* as a sequence of [key, nodes] entries in order of first insertion
dict_append(clusters, key, node) ==
    IF \E i \in DOMAIN clusters : clusters[i].key = key
    THEN [i \in DOMAIN clusters |->
            IF clusters[i].key = key
            THEN [key |-> key, nodes |-> Append(clusters[i].nodes, node)]
            ELSE clusters[i]]
    ELSE Append(clusters, [key |-> key, nodes |-> <<node>>])

RECURSIVE build_clusters_from(_, _)
build_clusters_from(clusters, nodes) ==
    IF nodes = <<>> THEN clusters
    ELSE build_clusters_from(
             dict_append(clusters, cluster_path_of(Head(nodes)), Head(nodes)),
             Tail(nodes))

build_clusters(nodes) == build_clusters_from(<<>>, nodes)

dict_keys(clusters) == [i \in DOMAIN clusters |-> clusters[i].key]

dict_get(clusters, key) ==
    IF \E i \in DOMAIN clusters : clusters[i].key = key
    THEN clusters[CHOOSE i \in DOMAIN clusters : clusters[i].key = key].nodes
    ELSE <<>>

\* the cluster taken as the first segment only
get_cluster_first_segment(node) ==
    IF "/" \in Range(node) THEN Head(split(node)) ELSE <<>>

get_cluster(node) ==
    IF "/" \in Range(node)
    THEN join(<<"/">>, ButLast(split(node)))
    ELSE <<>>

generate_color(index) == pastels_hex_color_theme[index + 1]

dot_header ==
    << <<"digraph G {">>,
       <<"    ", "compound=true;">>,
       <<"    ", "rankdir=LR;">>,
       <<"    ", "node [style=filled, fillcolor=\"#ffffff\", shape=box];">> >>

\* line 60: cluster_path[0 if not parents else len(parents[-1]):]
cluster_label(cluster_path, parents) ==
    IF parents = <<>> THEN cluster_path
    ELSE SubSeq(cluster_path, Len(Last(parents)) + 1, Len(cluster_path))

\* the index taken from the indent itself
color_index_off_by_one(indent) == indent % Len(pastels_hex_color_theme)

\* line 62: the 0-based palette index of a block at the given indent
color_index(indent) == (indent - 1) % Len(pastels_hex_color_theme)

\* lines 63-68
block_header(cluster_path, parents) ==
    LET indent == Len(parents) + 1
        sub_indent == Indent(indent)
        color == generate_color(color_index(indent))
    IN  << sub_indent \o <<"subgraph \"cluster_">> \o cluster_path \o <<"\" {">>,
           sub_indent \o <<"    ", "label=\"">> \o cluster_label(cluster_path, parents)
                      \o <<"\";">>,
           sub_indent \o <<"    ", "fontsize=20;">>,
           sub_indent \o <<"    ", "style=filled;">>,
           sub_indent \o <<"    ", "color=\"", color, "\";">>,
           sub_indent \o <<"    ", "fillcolor=\"", color, "\";">> >>

\* line 73
node_line(indent, node) ==
    Indent(indent) \o <<"    ", "\"">> \o node \o <<"\" [label=\"">>
                   \o Last(split(node)) \o <<"\"];">>

\* lines 71-73
node_lines(indent, cluster_nodes) ==
    [i \in DOMAIN cluster_nodes |-> node_line(indent, cluster_nodes[i])]

\* the prefix test with its operands exchanged
is_nested_swapped(k, cluster_path) ==
    startswith(cluster_path, k \o <<"/">>) /\ k # cluster_path

\* line 79
is_nested(k, cluster_path) ==
    startswith(k, cluster_path \o <<"/">>) /\ k # cluster_path

\* lines 76-80
nested_clusters(clusters, cluster_path) ==
    {k \in Range(dict_keys(clusters)) : is_nested(k, cluster_path)}

\* line 61: print(cluster_path, cluster_nodes, file=sys.stderr)
trace_line(cluster_path, cluster_nodes) ==
    cluster_path \o <<" ", "[">>
        \o join(<<", ">>, [i \in DOMAIN cluster_nodes |->
                             <<"'">> \o cluster_nodes[i] \o <<"'">>])
        \o <<"]">>

ToDot(lines) == [i \in DOMAIN lines |-> [stream |-> "dot", text |-> lines[i]]]

ToStderr(lines) ==
    [i \in DOMAIN lines |-> [stream |-> "stderr", text |-> lines[i]]]

\* the lines among the events that went to the given stream, in order
Written(events, stream) ==
    LET chosen == SelectSeq(events, LAMBDA e : e.stream = stream)
    IN  [i \in DOMAIN chosen |-> chosen[i].text]

\* lines 52-85; the result is the sequence of lines the call appends to dot
\* and prints to sys.stderr, in the order it writes them
RECURSIVE create_subgraphs(_, _, _)
RECURSIVE create_nested(_, _, _, _)
create_subgraphs(clusters, cluster_path, parents) ==
    LET indent == Len(parents) + 1
        cluster_nodes == dict_get(clusters, cluster_path)
    IN  (IF cluster_path # <<>>
         THEN ToStderr(<< trace_line(cluster_path, cluster_nodes) >>)
              \o ToDot(block_header(cluster_path, parents))
         ELSE <<>>)
        \o ToDot(node_lines(indent, cluster_nodes))
        \o create_nested(clusters,
                         sorted(nested_clusters(clusters, cluster_path)),
                         cluster_path, parents)
        \o (IF cluster_path # <<>>
            THEN ToDot(<< Indent(indent) \o <<"}">> >>)
            ELSE <<>>)

\* lines 81-82
create_nested(clusters, nested, cluster_path, parents) ==
    IF nested = <<>> THEN <<>>
    ELSE create_subgraphs(clusters, Head(nested),
                          Append(parents, cluster_path \o <<"/">>))
         \o create_nested(clusters, Tail(nested), cluster_path, parents)

\* lines 87-88
RECURSIVE root_loop(_, _)
root_loop(clusters, keys) ==
    IF keys = <<>> THEN <<>>
    ELSE create_subgraphs(clusters, Head(keys), <<>>)
         \o root_loop(clusters, Tail(keys))

\* the two emptiness tests exchanged
edge_attrs_swapped(from_cluster, to_cluster) ==
    IF from_cluster # to_cluster
    THEN (IF from_cluster # <<>>
          THEN << <<"lhead=\"cluster_">> \o to_cluster \o <<"\"">> >>
          ELSE <<>>)
         \o
         (IF to_cluster # <<>>
          THEN << <<"ltail=\"cluster_">> \o from_cluster \o <<"\"">> >>
          ELSE <<>>)
    ELSE <<>>

\* lines 98-103
edge_attrs(from_cluster, to_cluster) ==
    IF from_cluster # to_cluster
    THEN (IF to_cluster # <<>>
          THEN << <<"lhead=\"cluster_">> \o to_cluster \o <<"\"">> >>
          ELSE <<>>)
         \o
         (IF from_cluster # <<>>
          THEN << <<"ltail=\"cluster_">> \o from_cluster \o <<"\"">> >>
          ELSE <<>>)
    ELSE <<>>

\* lines 95-105
edge_key_of(from_node, to_node) ==
    join(<<", ">>, edge_attrs(get_cluster(from_node), get_cluster(to_node)))

\* the test without its exemption of the empty key
is_unique_strict(edge_key, seen_edges) ==
    edge_key \notin seen_edges

\* line 108
is_unique(edge_key, seen_edges) ==
    edge_key \notin seen_edges \/ edge_key = <<>>

\* line 110
edge_line(from_node, to_node, edge_key) ==
    <<"    ", "\"">> \o from_node \o <<"\" -> \"">> \o to_node \o <<"\" [">>
        \o edge_key \o <<"];">>

\* lines 94-110; an entry that is not a pair makes the unpacking raise, which
\* the result records as a last event of stream "raise"
RECURSIVE edge_loop(_, _)
edge_loop(edges, seen_edges) ==
    IF edges = <<>> THEN <<>>
    ELSE IF Len(Head(edges)) # 2 THEN << [stream |-> "raise", text |-> <<>>] >>
    ELSE LET from_node == Head(edges)[1]
             to_node == Head(edges)[2]
             edge_key == edge_key_of(from_node, to_node)
         IN  IF is_unique(edge_key, seen_edges)
             THEN ToDot(<< edge_line(from_node, to_node, edge_key) >>)
                  \o edge_loop(Tail(edges), seen_edges \cup {edge_key})
             ELSE edge_loop(Tail(edges), seen_edges)

\* lines 41-113: everything the call writes, ending with an event of stream
\* "raise" when a KeyError or ValueError ends the call and with an event of
\* stream "return" carrying the returned text otherwise
generate_dot(data) ==
    IF "nodes" \notin data.keys
    THEN << [stream |-> "raise", text |-> <<>>] >>
    ELSE LET clusters == build_clusters(data.nodes)
             before_edges == ToDot(dot_header)
                             \o root_loop(clusters, dict_keys(clusters))
         IN  IF "edges" \notin data.keys
             THEN Append(before_edges, [stream |-> "raise", text |-> <<>>])
             ELSE LET events == before_edges \o edge_loop(data.edges, {})
                  IN  IF events[Len(events)].stream = "raise"
                      THEN events
                      ELSE LET all == events \o ToDot(<< <<"}">> >>)
                           IN  Append(all,
                                   [stream |-> "return",
                                    text |-> join(<<"\n">>, Written(all, "dot"))])

---------------------------------------------------------------------------
(* Input documents *)

Segments == {<<>>, <<"a">>}

DeepSegments == {<<"a">>}

Paths(segs, n) == {join(<<"/">>, p) : p \in UNION {[1..k -> segs] : k \in 1..n}}

Lists(S, n) == UNION {[1..k -> S] : k \in 0..n}

NodeIds == Paths(Segments, MaxSegs)

DeepIds == Paths(DeepSegments, MaxDeepSegs)

EdgeIds == { <<"a">>, <<"b", "/", "a">>, <<"a", "/", "b", "/", "a">> }

Doc(nodes, edges) ==
    [json |-> TRUE, keys |-> {"nodes", "edges"}, nodes |-> nodes,
     edges |-> edges]

NotAPair == { <<>>, << <<"a">> >>, << <<"a">>, <<"a">>, <<"a">> >> }

SomeEdge == << <<"a">>, <<"a", "/", "a">> >>

MalformedDocs ==
    { [json |-> FALSE, keys |-> {}, nodes |-> <<>>, edges |-> <<>>],
      [json |-> TRUE, keys |-> {}, nodes |-> <<>>, edges |-> <<>>],
      [json |-> TRUE, keys |-> {"edges"}, nodes |-> <<>>,
       edges |-> <<SomeEdge>>] }
    \cup { [json |-> TRUE, keys |-> {"nodes"}, nodes |-> n, edges |-> <<>>] :
             n \in { <<>>, << <<"a", "/", "a">> >> } }
    \cup { Doc(<< <<"a">>, <<"a", "/", "a">> >>, e) :
             e \in { <<bad>> : bad \in NotAPair }
                   \cup { <<SomeEdge, bad>> : bad \in NotAPair }
                   \cup { <<SomeEdge, bad, SomeEdge>> : bad \in NotAPair } }

InitWith(docs) ==
    /\ stdin \in docs \cup MalformedDocs
    /\ pc = "start"
    /\ dot = <<>>
    /\ dot_content = <<>>
    /\ stdout = <<>>
    /\ stderr = <<>>

\* an edge from each listed node to the next one
ChainEdges(nodes) == [i \in 1..(Len(nodes) - 1) |-> <<nodes[i], nodes[i + 1]>>]

\* node lists over NodeIds, with the edges between neighbours in the list
Init ==
    InitWith({ Doc(n, ChainEdges(n)) : n \in Lists(NodeIds, MaxNodes) })

Reverse(list) == [i \in DOMAIN list |-> list[Len(list) + 1 - i]]

\* deep chains of clusters: up to MaxDeepNodes distinct nodes of DeepIds,
\* listed shallowest first or deepest first, and no edges
InitDeep ==
    InitWith({ Doc(n, <<>>) :
               n \in UNION { { sorted(T), Reverse(sorted(T)) } :
                              T \in { U \in SUBSET DeepIds :
                                         Cardinality(U) <= MaxDeepNodes } } })

\* edge lists over EdgeIds, whether or not the endpoints are listed nodes;
\* the node list is fixed
InitEdges ==
    InitWith({ Doc(<< <<"b", "/", "a">> >>, e) :
               e \in Lists(EdgeIds \X EdgeIds, MaxEdgeList) })

---------------------------------------------------------------------------
(* main, lines 116-119 *)

\* line 117, json.load(sys.stdin) returns
LoadJson ==
    /\ pc = "start"
    /\ stdin.json
    /\ pc' = "loaded"
    /\ UNCHANGED <<stdin, dot, dot_content, stdout, stderr>>

\* line 117, json.load(sys.stdin) raises on text that is not JSON
LoadJsonRaises ==
    /\ pc = "start"
    /\ ~stdin.json
    /\ pc' = "error"
    /\ UNCHANGED <<stdin, dot, dot_content, stdout, stderr>>

\* line 118, generate_dot(data) returns
GenerateDot ==
    /\ pc = "loaded"
    /\ \E events \in {generate_dot(stdin)} :
           /\ Last(events).stream = "return"
           /\ dot' = Written(events, "dot")
           /\ stderr' = stderr \o Written(events, "stderr")
           /\ dot_content' = Last(events).text
    /\ pc' = "generated"
    /\ UNCHANGED <<stdin, stdout>>

\* the lines written so far reach standard output when the call raises
GenerateDotRaisesAfterPrinting ==
    /\ pc = "loaded"
    /\ \E events \in {generate_dot(stdin)} :
           /\ Last(events).stream = "raise"
           /\ dot' = Written(events, "dot")
           /\ stderr' = stderr \o Written(events, "stderr")
           /\ stdout' = IF Written(events, "dot") = <<>> THEN stdout
                        ELSE Append(stdout,
                                 join(<<"\n">>, Written(events, "dot")) \o <<"\n">>)
    /\ pc' = "error"
    /\ UNCHANGED <<stdin, dot_content>>

\* line 118, generate_dot(data) raises; the exception leaves main
GenerateDotRaises ==
    /\ pc = "loaded"
    /\ \E events \in {generate_dot(stdin)} :
           /\ Last(events).stream = "raise"
           /\ dot' = Written(events, "dot")
           /\ stderr' = stderr \o Written(events, "stderr")
    /\ pc' = "error"
    /\ UNCHANGED <<stdin, dot_content, stdout>>

\* line 119
PrintDot ==
    /\ pc = "generated"
    /\ stdout' = Append(stdout, dot_content \o <<"\n">>)
    /\ pc' = "done"
    /\ UNCHANGED <<stdin, dot, dot_content, stderr>>

Next ==
    \/ LoadJson
    \/ LoadJsonRaises
    \/ GenerateDot
    \/ GenerateDotRaises
    \/ PrintDot

Spec == Init /\ [][Next]_vars

SpecDeep == InitDeep /\ [][Next]_vars

SpecEdges == InitEdges /\ [][Next]_vars

---------------------------------------------------------------------------
(* Reading the output *)

\* the document has been written to standard output
Printed == pc = "done"

RECURSIVE indent_of(_)
indent_of(line) ==
    IF line # <<>> /\ Head(line) = "    " THEN 1 + indent_of(Tail(line)) ELSE 0

strip(line) == SubSeq(line, indent_of(line) + 1, Len(line))

OpenLine(path) == <<"subgraph \"cluster_">> \o path \o <<"\" {">>

IsOpen(i, path) == strip(dot[i]) = OpenLine(path)

IsAnyOpen(i) == dot[i] # <<>> /\ Head(strip(dot[i])) = "subgraph \"cluster_"

\* the line that closes the block opened at line i: the next "}" at its indent
CloseOf(i) ==
    LET close == Indent(indent_of(dot[i])) \o <<"}">>
        closers == {j \in (i + 1)..Len(dot) : dot[j] = close}
    IN  CHOOSE j \in closers : \A k \in closers : j <= k

Opens(path) ==
    LET open == OpenLine(path) IN {i \in DOMAIN dot : strip(dot[i]) = open}

\* line j lies in the block opened at i
Inside(i, j) == i < j /\ j < CloseOf(i)

\* line j lies in the block opened at i and in no block nested in it
DirectlyInside(i, j) ==
    /\ Inside(i, j)
    /\ \A k \in (i + 1)..(j - 1) : IsAnyOpen(k) => ~Inside(k, j)

\* the identifier without its last slash-delimited segment
LastSlash(id) ==
    IF "/" \in Range(id)
    THEN CHOOSE i \in DOMAIN id :
             id[i] = "/" /\ \A j \in (i + 1)..Len(id) : id[j] # "/"
    ELSE 0

OwningCluster(id) == SubSeq(id, 1, LastSlash(id) - 1)

LastSegment(id) == SubSeq(id, LastSlash(id) + 1, Len(id))

DeclLine(id) ==
    <<"\"">> \o id \o <<"\" [label=\"">> \o LastSegment(id) \o <<"\"];">>

Decls(id) ==
    LET decl == DeclLine(id) IN {i \in DOMAIN dot : strip(dot[i]) = decl}

Occurrences(list, x) == Cardinality({i \in DOMAIN list : list[i] = x})

\* the cluster paths that own a node of the input
Owners == {OwningCluster(stdin.nodes[i]) : i \in DOMAIN stdin.nodes}

IsSegment(s) == "/" \notin Range(s)

\* q = p/s for one segment s
IsChildPath(p, q) ==
    /\ startswith(q, p \o <<"/">>)
    /\ IsSegment(SubSeq(q, Len(p) + 2, Len(q)))

\* p, and every path of which p is a descendant
SelfAndAncestors(p) ==
    {p} \cup {SubSeq(p, 1, i - 1) : i \in {j \in DOMAIN p : p[j] = "/"}}

---------------------------------------------------------------------------
(* Node declarations and cluster blocks *)

\* C1: every node of the input is declared in the output exactly once (as
\* often as the node list names it), whatever the shape of the cluster paths.
C1_EveryNodeDeclaredOnce ==
    Printed =>
        \A id \in Range(stdin.nodes) :
            Cardinality(Decls(id)) = Occurrences(stdin.nodes, id)

NestedBlock(p, q) ==
    \E i \in Opens(p) : \E j \in Opens(q) : Inside(i, j) /\ CloseOf(j) < CloseOf(i)

C5_EachClusterEmittedOnce ==
    Printed =>
        \A p \in Owners \ {<<>>} : Cardinality(Opens(p)) = 1

\* C6: a block is emitted for every cluster path that owns a node and for
\* every non-empty ancestor of such a path.
C6_AncestorsCovered ==
    Printed =>
        \A p \in Owners : \A a \in SelfAndAncestors(p) \ {<<>>} : Opens(a) # {}

\* the registered paths below p with no registered path in between
DirectChildren(p) ==
    {q \in Owners : /\ startswith(q, p \o <<"/">>)
                    /\ ~\E r \in Owners : /\ startswith(r, p \o <<"/">>)
                                          /\ startswith(q, r \o <<"/">>)}

OpenedDirectlyIn(i) ==
    {q \in Owners : \E j \in Opens(q) : DirectlyInside(i, j)}

\* C7: the blocks opened immediately inside a block of P are exactly those of
\* the direct children of P among the registered cluster paths.
C7_DirectChildrenOnly ==
    Printed =>
        \A p \in Owners \ {<<>>} : \A i \in Opens(p) :
            OpenedDirectlyIn(i) = DirectChildren(p)

---------------------------------------------------------------------------
(* Colours *)

IsCloseLine(i) == strip(dot[i]) = <<"}">> /\ indent_of(dot[i]) >= 1

\* one more than the number of blocks that are open at line i
DepthAt(i) ==
    1 + Cardinality({k \in 1..(i - 1) : IsAnyOpen(k)})
      - Cardinality({k \in 1..(i - 1) : IsCloseLine(k)})

Palette == <<"#FFDAB9", "#FAFAD2", "#D3FFCE", "#E6E6FA">>

\* C8: a block at nesting depth d has color and fillcolor equal to entry
\* (d - 1) mod 4 of the palette #FFDAB9, #FAFAD2, #D3FFCE, #E6E6FA.
C8_DepthIndexedColour ==
    Printed =>
        \A i \in DOMAIN dot :
            IsAnyOpen(i) =>
                LET d == DepthAt(i)
                    entry == Palette[((d - 1) % 4) + 1]
                IN  /\ indent_of(dot[i]) = d
                    /\ dot[i + 4] = Indent(d + 1) \o <<"color=\"", entry, "\";">>
                    /\ dot[i + 5] = Indent(d + 1) \o <<"fillcolor=\"", entry, "\";">>

C8_Witness ==
    /\ pc = "done"
    /\ \E i \in DOMAIN dot :
           /\ IsAnyOpen(i)
           /\ DepthAt(i) = 5
           /\ dot[i + 4] = Indent(6) \o <<"color=\"", "#FFDAB9", "\";">>

---------------------------------------------------------------------------
(* Edges *)

IsEdgeLine(line) == "\" -> \"" \in Range(line)

IndexOf(line, token) ==
    CHOOSE i \in DOMAIN line :
        line[i] = token /\ \A j \in 1..(i - 1) : line[j] # token

FromOf(line) == SubSeq(line, 3, IndexOf(line, "\" -> \"") - 1)

ToOf(line) ==
    SubSeq(line, IndexOf(line, "\" -> \"") + 1, IndexOf(line, "\" [") - 1)

AttrsOf(line) == SubSeq(line, IndexOf(line, "\" [") + 1, Len(line) - 1)

HasAttr(line, name) == name \in Range(line)

\* the text between the attribute's opening quote and the next quote
AttrValue(line, name) ==
    LET from == IndexOf(line, name)
        to == CHOOSE q \in DOMAIN line :
                  /\ q > from
                  /\ line[q] = "\""
                  /\ \A r \in (from + 1)..(q - 1) : line[r] # "\""
    IN  SubSeq(line, from + 1, to - 1)

EdgeLines == SelectSeq(dot, IsEdgeLine)

\* the attribute string of an edge, from the owning clusters of its ends
AttrString(edge) ==
    LET source == OwningCluster(edge[1])
        target == OwningCluster(edge[2])
        lhead == <<"lhead=\"cluster_">> \o target \o <<"\"">>
        ltail == <<"ltail=\"cluster_">> \o source \o <<"\"">>
    IN  IF source = target THEN <<>>
        ELSE IF target # <<>> /\ source # <<>> THEN lhead \o <<", ">> \o ltail
        ELSE IF target # <<>> THEN lhead
        ELSE ltail

\* the i-th edge has an empty attribute string or is the first with its own
FirstOrPlain(edges, i) ==
    \/ AttrString(edges[i]) = <<>>
    \/ \A j \in 1..(i - 1) : AttrString(edges[j]) # AttrString(edges[i])

RECURSIVE Kept(_, _)
Kept(edges, i) ==
    IF i > Len(edges) THEN <<>>
    ELSE (IF FirstOrPlain(edges, i) THEN <<edges[i]>> ELSE <<>>)
         \o Kept(edges, i + 1)

C4_BoundaryAttributes ==
    Printed =>
        /\ \A line \in Range(dot) :
               IsEdgeLine(line) =>
                   /\ <<FromOf(line), ToOf(line)>> \in Range(stdin.edges)
                   /\ AttrsOf(line) = AttrString(<<FromOf(line), ToOf(line)>>)
        /\ (stdin.edges # <<>> /\ stdin.edges[1] = << <<"a">>, <<"b", "/", "a">> >>)
               => EdgeLines[1] = <<"    ", "\"", "a", "\" -> \"", "b", "/", "a",
                                   "\" [", "lhead=\"cluster_", "b", "\"", "];">>

C4_Witness ==
    /\ pc = "done"
    /\ Len(EdgeLines) = 3
    /\ EdgeLines[1] = <<"    ", "\"", "a", "\" -> \"", "b", "/", "a",
                        "\" [", "lhead=\"cluster_", "b", "\"", "];">>
    /\ \E k \in DOMAIN EdgeLines :
           HasAttr(EdgeLines[k], "lhead=\"cluster_")
               /\ HasAttr(EdgeLines[k], "ltail=\"cluster_")
    /\ \E k \in DOMAIN EdgeLines :
           ~HasAttr(EdgeLines[k], "lhead=\"cluster_")
               /\ HasAttr(EdgeLines[k], "ltail=\"cluster_")

\* the block opened at line i holds the declaration of the node
DeclaredIn(i, id) == \E j \in Decls(id) : Inside(i, j)

HintNamesBlockOf(line, name, id) ==
    HasAttr(line, name) =>
        \E i \in Opens(AttrValue(line, name)) : DeclaredIn(i, id)

\* C9: when both ends of an edge are listed nodes, every lhead or ltail of its
\* line names a cluster whose block is emitted and holds the declaration of
\* that end; get_cluster and build_clusters agree on every listed node.
C9_HintsNameEmittedClusters ==
    Printed =>
        /\ \A line \in Range(dot) :
               IsEdgeLine(line) =>
                   /\ HintNamesBlockOf(line, "lhead=\"cluster_", ToOf(line))
                   /\ HintNamesBlockOf(line, "ltail=\"cluster_", FromOf(line))
        /\ \A id \in Range(stdin.nodes) :
               /\ get_cluster(id) = cluster_path_of(id)
               /\ id \in Range(dict_get(build_clusters(stdin.nodes), get_cluster(id)))

C9_Witness ==
    /\ pc = "done"
    /\ \E line \in Range(dot) :
           /\ IsEdgeLine(line)
           /\ HasAttr(line, "lhead=\"cluster_")
           /\ HasAttr(line, "ltail=\"cluster_")
           /\ "/" \in Range(AttrValue(line, "lhead=\"cluster_"))

---------------------------------------------------------------------------
(* Standard output *)

WellFormed(doc) ==
    /\ doc.json
    /\ {"nodes", "edges"} \subseteq doc.keys
    /\ \A i \in DOMAIN doc.edges : Len(doc.edges[i]) = 2

\* C10: nothing is written to standard output before generate_dot has
\* returned; a malformed input ends in the error state with nothing written;
\* a well-formed input never ends in the error state and yields one complete
\* document, from "digraph G {" to "}".
C10_AllOrNothingStdout ==
    /\ pc # "done" => stdout = <<>>
    /\ pc = "error" => ~WellFormed(stdin)
    /\ pc \in {"generated", "done"} => WellFormed(stdin)
    /\ pc = "done" =>
           /\ Len(stdout) = 1
           /\ stdout[1] = join(<<"\n">>, dot) \o <<"\n">>
           /\ Head(stdout[1]) = "digraph G {"
           /\ SubSeq(stdout[1], Len(stdout[1]) - 2, Len(stdout[1]))
                  = <<"\n", "}", "\n">>

C10_Witness ==
    /\ pc = "error"
    /\ \E i \in DOMAIN dot : IsEdgeLine(dot[i])
    /\ stdout = <<>>

====
